---------------------------- MODULE Spec2Model ----------------------------
(***************************************************************************)
(* The Register component of src/routes/register/Register.jsx: the state   *)
(* held by its useState hooks, the two event handlers handleChange and     *)
(* handleSubmit, the continuation of handleSubmit after its await, and the *)
(* navigation timer it schedules.                                          *)
(*                                                                         *)
(* Strings of the form are sequences of one-character strings, so that the *)
(* regular expressions of the validation are computed character by         *)
(* character.  The JavaScript value false of an ErrorState entry is the    *)
(* string "false" (TLC compares values of one type only).                  *)
(*                                                                         *)
(* Time is not measured: a timer carries its delay and its callback may    *)
(* run at any later step.  networkAdapter.put answers a request at any     *)
(* later step, in any order, with a response or by rejecting.  A frame of  *)
(* handleSubmit that is resumed after the navigation still runs its        *)
(* setters; the events of the form stop with the navigation.               *)
(***************************************************************************)
EXTENDS Integers, Sequences, FiniteSets, TLC

VARIABLES
    formData,        \* useState at Register.jsx:26
    errorMessage,    \* useState at Register.jsx:18
    successMessage,  \* useState at Register.jsx:16
    showSuccess,     \* useState at Register.jsx:17
    calls,           \* the invocations of handleSubmit, in order of the submit events
    timers,          \* the pending setTimeout callbacks of Register.jsx:60
    location         \* the route the router shows

vars == <<formData, errorMessage, successMessage, showSuccess, calls, timers, location>>

-----------------------------------------------------------------------------
(* Bounds *)

\* The number of submit events of one run.
MaxSubmits == 2

-----------------------------------------------------------------------------
(* Characters and the character classes of the regular expressions *)

Digits == {"0", "1", "2", "3", "4", "5", "6", "7", "8", "9"}

Lower == {"a", "b", "c", "d", "e", "f", "g", "h", "i", "j", "k", "l", "m",
          "n", "o", "p", "q", "r", "s", "t", "u", "v", "w", "x", "y", "z"}

Upper == {"A", "B", "C", "D", "E", "F", "G", "H", "I", "J", "K", "L", "M",
          "N", "O", "P", "Q", "R", "S", "T", "U", "V", "W", "X", "Y", "Z"}

\* The characters . does not match (line terminators), all of them in \s.
LineTerminators == {"\n", "\r"}

\* \s, as far as the characters of the model go.
Whitespace == {" ", "\t"} \cup LineTerminators

-----------------------------------------------------------------------------
(* The form *)

Fields == {"firstName", "lastName", "email", "phoneNumber", "password", "confirmPassword"}

ErrorFields == {"firstNameError", "lastNameError", "emailError", "phoneNumberError",
                "passwordError", "confirmPasswordError"}

\* The ErrorState entry of each field.
ErrorKey ==
    [firstName |-> "firstNameError", lastName |-> "lastNameError", email |-> "emailError",
     phoneNumber |-> "phoneNumberError", password |-> "passwordError",
     confirmPassword |-> "confirmPasswordError"]

\* The JavaScript value false of an ErrorState entry.
false == "false"

MsgMin2 == "Must be at least 2 characters long"
MsgNoNumbers == "The field cannot contain numbers"
MsgEmail == "Incorrect email adress"
MsgPhone == "Incorrect phone number format e.g.(+36302748465)"
MsgPassword == "Min. 8 characters, upper and lowercase"
MsgMismatch == "The passwords don't match"

Messages == {MsgMin2, MsgNoNumbers, MsgEmail, MsgPhone, MsgPassword, MsgMismatch}

\* REGISTRATION_MESSAGES.SUCCESS of utils/constants.
RegistrationSuccess == "REGISTRATION_MESSAGES.SUCCESS"

RegisterUrl == "/api/users/register"
LoginPath == "/login"
RegisterPath == "/register"
NavigateDelay == 2000

\* The values the user types into the inputs of the form.
InputValues ==
    [firstName       |-> {<<"A", "l">>},
     lastName        |-> {<<"B", "o">>},
     email           |-> {<<"a", "@", "b", ".", "c">>},
     phoneNumber     |-> {<<"+", "3", "6", "3", "0", "2", "7", "4", "8", "4", "6", "5">>},
     password        |-> {<<"P", "a", "s", "s", "w", "0", "r", "d">>},
     confirmPassword |-> {<<"P", "a", "s", "s", "w", "0", "r", "d">>}]

\* The forms the validation is checked on: for each field values that pass
\* and values that fail each of its checks.
FormValues ==
    [firstName       |-> {<<"A">>, <<"A", "l">>, <<"A", "1">>},
     lastName        |-> {<<>>, <<"B", "o">>, <<"B", "o", "2">>},
     email           |-> {<<"a", "@", "b">>, <<"a", "@", "b", ".", "c">>},
     phoneNumber     |-> {<<"3", "6", "3", "0", "2", "7", "4", "8", "4", "6", "5">>,
                          <<"+", "3", "6", "3", "0", "2", "7", "4", "8", "4", "6", "5">>},
     password        |-> {<<"p", "a", "s", "s", "w", "o", "r", "d">>,
                          <<"P", "a", "s", "s", "w", "0", "r", "d">>},
     confirmPassword |-> {<<"P", "a", "s", "s", "w", "0", "r">>,
                          <<"P", "a", "s", "s", "w", "0", "r", "d">>,
                          <<"P", "a", "s", "s", "w", "0", "r", "D">>}]

\* The values an ErrorState entry takes: false, or a message of its block.
ErrorValues ==
    [firstNameError       |-> {false, MsgMin2, MsgNoNumbers},
     lastNameError        |-> {false, MsgMin2, MsgNoNumbers},
     emailError           |-> {false, MsgEmail},
     phoneNumberError     |-> {false, MsgPhone},
     passwordError        |-> {false, MsgPassword, MsgMismatch},
     confirmPasswordError |-> {false, MsgPassword}]

-----------------------------------------------------------------------------
(* The regular expressions of the validation *)

\* HasDigit with the expression anchored at the start of the string: /^\d/.
HasDigit_Anchored(s) == Len(s) >= 1 /\ s[1] \in Digits

\* /\d/.test(s)
HasDigit(s) == \E i \in 1..Len(s) : s[i] \in Digits

\* /^[^\s@]+@[^\s@]+\.[^\s@]+$/.test(s)
EmailTest(s) ==
    \E i, j \in 1..Len(s) :
        /\ 1 < i /\ i + 1 < j /\ j < Len(s)
        /\ s[i] = "@"
        /\ s[j] = "."
        /\ \A k \in (1..Len(s)) \ {i} : s[k] \notin (Whitespace \cup {"@"})

\* /^\+\d{2}\d{1,2}\d{7,8}$/.test(s)
PhoneTest(s) ==
    /\ Len(s) >= 1
    /\ s[1] = "+"
    /\ \E area \in 1..2, number \in 7..8 : Len(s) = 1 + 2 + area + number
    /\ \A k \in 2..Len(s) : s[k] \in Digits

\* /^(?=.*[a-z])(?=.*[A-Z])(?=.*\d).{8,}$/.test(s)
PasswordTest(s) ==
    /\ \E i \in 1..Len(s) : s[i] \in Lower /\ \A k \in 1..(i - 1) : s[k] \notin LineTerminators
    /\ \E i \in 1..Len(s) : s[i] \in Upper /\ \A k \in 1..(i - 1) : s[k] \notin LineTerminators
    /\ \E i \in 1..Len(s) : s[i] \in Digits /\ \A k \in 1..(i - 1) : s[k] \notin LineTerminators
    /\ Len(s) >= 8
    /\ \A k \in 1..Len(s) : s[k] \notin LineTerminators

-----------------------------------------------------------------------------
(* The validation of handleSubmit, Register.jsx:66-171.  Each block takes   *)
(* the FormData of the closure and the ErrorState so far, and gives the     *)
(* ErrorState after its setErrorMessage and whether it returned.            *)

FirstNameValidation(fd, prevState) ==
    IF Len(fd.firstName) < 2
    THEN [state |-> [prevState EXCEPT !.firstNameError = MsgMin2], returned |-> TRUE]
    ELSE IF HasDigit(fd.firstName)
    THEN [state |-> [prevState EXCEPT !.firstNameError = MsgNoNumbers], returned |-> TRUE]
    ELSE [state |-> [prevState EXCEPT !.firstNameError = false], returned |-> FALSE]

LastNameValidation(fd, prevState) ==
    IF Len(fd.lastName) < 2
    THEN [state |-> [prevState EXCEPT !.lastNameError = MsgMin2], returned |-> TRUE]
    ELSE IF HasDigit(fd.lastName)
    THEN [state |-> [prevState EXCEPT !.lastNameError = MsgNoNumbers], returned |-> TRUE]
    ELSE [state |-> [prevState EXCEPT !.lastNameError = false], returned |-> FALSE]

EmailValidation(fd, prevState) ==
    IF EmailTest(fd.email) = FALSE
    THEN [state |-> [prevState EXCEPT !.emailError = MsgEmail], returned |-> TRUE]
    ELSE [state |-> [prevState EXCEPT !.emailError = false], returned |-> FALSE]

PhoneNumberValidation(fd, prevState) ==
    IF PhoneTest(fd.phoneNumber) = FALSE
    THEN [state |-> [prevState EXCEPT !.phoneNumberError = MsgPhone], returned |-> TRUE]
    ELSE [state |-> [prevState EXCEPT !.phoneNumberError = false], returned |-> FALSE]

\* PasswordValidation with the message of the equality check stored under
\* the key of the other field.
PasswordValidation_WrongKey(fd, prevState) ==
    IF PasswordTest(fd.password) = FALSE
    THEN [state |-> [prevState EXCEPT !.passwordError = MsgPassword], returned |-> TRUE]
    ELSE IF PasswordTest(fd.confirmPassword) = FALSE
    THEN [state |-> [prevState EXCEPT !.confirmPasswordError = MsgPassword], returned |-> TRUE]
    ELSE IF fd.password # fd.confirmPassword
    THEN [state |-> [prevState EXCEPT !.confirmPasswordError = MsgMismatch], returned |-> TRUE]
    ELSE [state |-> [prevState EXCEPT !.passwordError = false,
                                      !.confirmPasswordError = false],
          returned |-> FALSE]

PasswordValidation(fd, prevState) ==
    IF PasswordTest(fd.password) = FALSE
    THEN [state |-> [prevState EXCEPT !.passwordError = MsgPassword], returned |-> TRUE]
    ELSE IF PasswordTest(fd.confirmPassword) = FALSE
    THEN [state |-> [prevState EXCEPT !.confirmPasswordError = MsgPassword], returned |-> TRUE]
    ELSE IF fd.password # fd.confirmPassword
    THEN [state |-> [prevState EXCEPT !.passwordError = MsgMismatch], returned |-> TRUE]
    ELSE [state |-> [prevState EXCEPT !.passwordError = false,
                                      !.confirmPasswordError = false],
          returned |-> FALSE]

\* The blocks in the order of the source, each reached only when the ones
\* before it did not return.
Validation(fd, prevState) ==
    LET a == FirstNameValidation(fd, prevState) IN
    IF a.returned THEN a.state ELSE
    LET b == LastNameValidation(fd, a.state) IN
    IF b.returned THEN b.state ELSE
    LET c == EmailValidation(fd, b.state) IN
    IF c.returned THEN c.state ELSE
    LET d == PhoneNumberValidation(fd, c.state) IN
    IF d.returned THEN d.state ELSE
    PasswordValidation(fd, d.state).state

-----------------------------------------------------------------------------
(* The responses of networkAdapter.put *)

\* null, an object without errors, { errors: [] } and { errors: [message] }.
Responses ==
    {[null |-> TRUE, hasErrors |-> FALSE, errors |-> <<>>],
     [null |-> FALSE, hasErrors |-> FALSE, errors |-> <<>>],
     [null |-> FALSE, hasErrors |-> TRUE, errors |-> <<>>],
     [null |-> FALSE, hasErrors |-> TRUE, errors |-> <<"Email already exists">>]}

\* IsSuccess without the test of the length of errors.
IsSuccess_NoLengthTest(response) ==
    /\ ~response.null
    /\ response.hasErrors

\* response && response.errors && response.errors.length < 1
IsSuccess(response) ==
    /\ ~response.null
    /\ response.hasErrors
    /\ Len(response.errors) < 1

-----------------------------------------------------------------------------
(* The component *)

Init ==
    /\ formData = [firstName |-> <<>>, lastName |-> <<>>, email |-> <<>>,
                   phoneNumber |-> <<>>, password |-> <<>>, confirmPassword |-> <<>>]
    /\ errorMessage = [firstNameError |-> false, lastNameError |-> false,
                       emailError |-> false, phoneNumberError |-> false,
                       passwordError |-> false, confirmPasswordError |-> false]
    /\ successMessage = ""
    /\ showSuccess = FALSE
    /\ calls = <<>>
    /\ timers = <<>>
    /\ location = RegisterPath

\* The form is rendered, and its events fire, while the route is the register route.
Mounted == location = RegisterPath

\* handleChange that also clears the error of the field it changes.
handleChange_ClearsError(name, value) ==
    /\ Mounted
    /\ formData' = [formData EXCEPT ![name] = value]
    /\ errorMessage' = [errorMessage EXCEPT ![ErrorKey[name]] = false]
    /\ UNCHANGED <<successMessage, showSuccess, calls, timers, location>>

\* handleChange: setFormData({ ...formData, [e.target.name]: e.target.value })
handleChange(name, value) ==
    /\ Mounted
    /\ formData' = [formData EXCEPT ![name] = value]
    /\ UNCHANGED <<errorMessage, successMessage, showSuccess, calls, timers, location>>

\* The frame of a handleSubmit invocation suspended at its await: the
\* formData of the render it closes over and the request it has made.
NewCall(fd) ==
    [closure  |-> <<fd>>,
     request  |-> <<[method |-> "PUT", url |-> RegisterUrl, body |-> fd]>>,
     response |-> <<>>,
     pc       |-> "await"]

\* A frame that has ended: its closure and its request are gone; what is
\* kept is how it ended and the response it received, if any.
EndedCall(pc, response) ==
    [closure |-> <<>>, request |-> <<>>, response |-> response, pc |-> pc]

\* handleSubmit with the validation moved before the request.
handleSubmit_ValidatesFirst ==
    /\ Mounted
    /\ Len(calls) < MaxSubmits
    /\ errorMessage' = Validation(formData, errorMessage)
    /\ calls' = Append(calls, NewCall(formData))
    /\ UNCHANGED <<formData, successMessage, showSuccess, timers, location>>

\* handleSubmit up to its await: networkAdapter.put('/api/users/register', formData)
handleSubmit ==
    /\ Mounted
    /\ Len(calls) < MaxSubmits
    /\ calls' = Append(calls, NewCall(formData))
    /\ UNCHANGED <<formData, errorMessage, successMessage, showSuccess, timers, location>>

\* ValidatedErrors reading the formData of the latest render instead of
\* the one the frame closes over.
ValidatedErrors_Live(c, prevState) == Validation(formData, prevState)

\* The ErrorState after the validation of the suspended frame c.
ValidatedErrors(c, prevState) == Validation(c.closure[1], prevState)

\* The timer of setTimeout(() => navigate('/login'), 2000).
NavigateTimer == [delay |-> NavigateDelay, path |-> LoginPath]

\* handleSubmit after its await resolved with a response: the success branch,
\* then the validation.
handleSubmitResume(i, response) ==
    /\ calls[i].pc = "await"
    /\ IF IsSuccess(response)
       THEN /\ successMessage' = RegistrationSuccess
            /\ showSuccess' = TRUE
            /\ timers' = Append(timers, NavigateTimer)
       ELSE UNCHANGED <<successMessage, showSuccess, timers>>
    /\ errorMessage' = ValidatedErrors(calls[i], errorMessage)
    /\ calls' = [calls EXCEPT ![i] = EndedCall("done", <<response>>)]
    /\ UNCHANGED <<formData, location>>

\* The promise of networkAdapter.put rejects: the await throws and
\* handleSubmit ends there, before the success branch and the validation.
handleSubmitReject(i) ==
    /\ calls[i].pc = "await"
    /\ calls' = [calls EXCEPT ![i] = EndedCall("rejected", <<>>)]
    /\ UNCHANGED <<formData, errorMessage, successMessage, showSuccess, timers, location>>

\* The callback of a timer runs: navigate(path).
TimerFires(k) ==
    /\ location' = timers[k].path
    /\ timers' = SubSeq(timers, 1, k - 1) \o SubSeq(timers, k + 1, Len(timers))
    /\ UNCHANGED <<formData, errorMessage, successMessage, showSuccess, calls>>

Next ==
    \/ \E name \in Fields : \E value \in InputValues[name] : handleChange(name, value)
    \/ handleSubmit
    \/ \E i \in 1..Len(calls) : \E response \in Responses : handleSubmitResume(i, response)
    \/ \E i \in 1..Len(calls) : handleSubmitReject(i)
    \/ \E k \in 1..Len(timers) : TimerFires(k)

Spec == Init /\ [][Next]_vars

\* The event loop runs the callback of every timer whose delay has elapsed.
FairSpec == Spec /\ WF_vars(\E k \in 1..Len(timers) : TimerFires(k))

-----------------------------------------------------------------------------
(* The validation on its own: the component at any point of its life, with  *)
(* any of the forms of FormValues entered and with whatever earlier submit  *)
(* attempts left in ErrorState, and from there one submit.                  *)

InitValidation ==
    /\ formData \in [firstName : FormValues.firstName, lastName : FormValues.lastName,
                     email : FormValues.email, phoneNumber : FormValues.phoneNumber,
                     password : FormValues.password,
                     confirmPassword : FormValues.confirmPassword]
    /\ errorMessage \in [firstNameError : ErrorValues.firstNameError,
                         lastNameError : ErrorValues.lastNameError,
                         emailError : ErrorValues.emailError,
                         phoneNumberError : ErrorValues.phoneNumberError,
                         passwordError : ErrorValues.passwordError,
                         confirmPasswordError : ErrorValues.confirmPasswordError]
    /\ successMessage = ""
    /\ showSuccess = FALSE
    /\ calls = <<>>
    /\ timers = <<>>
    /\ location = RegisterPath

NextValidation ==
    \/ calls = <<>> /\ handleSubmit
    \/ \E i \in 1..Len(calls) : \E response \in Responses : handleSubmitResume(i, response)
    \/ \E i \in 1..Len(calls) : handleSubmitReject(i)

ValidationSpec == InitValidation /\ [][NextValidation]_vars

-----------------------------------------------------------------------------
(* Properties *)

\* The step in which frame i of handleSubmit runs from its await to its end
\* through the validation.
Resumed(i) == calls[i].pc = "await" /\ calls'[i].pc = "done"

\* The step of a submit event.
Submitted == Len(calls') = Len(calls) + 1

\* The frames suspended at their await: the requests not yet answered.
InFlight == {i \in 1..Len(calls) : calls[i].pc = "await"}

\* The rule of the name fields: at least 2 characters, no digit.
NameRuleBroken(s) == Len(s) < 2 \/ \E i \in 1..Len(s) : s[i] \in Digits

\* The checks of one validation in their fixed order.
CheckOrder ==
    <<"firstName", "lastName", "email", "phoneNumber", "password", "confirmPassword",
      "equality">>

CheckFails(check, fd) ==
    CASE check = "firstName"       -> NameRuleBroken(fd.firstName)
      [] check = "lastName"        -> NameRuleBroken(fd.lastName)
      [] check = "email"           -> ~EmailTest(fd.email)
      [] check = "phoneNumber"     -> ~PhoneTest(fd.phoneNumber)
      [] check = "password"        -> ~PasswordTest(fd.password)
      [] check = "confirmPassword" -> ~PasswordTest(fd.confirmPassword)
      [] check = "equality"        -> fd.password # fd.confirmPassword

\* The ErrorState entry a check reports in.
EntryOf(check) == IF check = "equality" THEN "passwordError" ELSE ErrorKey[check]

\* The place in CheckOrder of the first check a form fails, 0 when it passes all.
FirstFailing(fd) ==
    LET failing == {k \in 1..Len(CheckOrder) : CheckFails(CheckOrder[k], fd)}
    IN  IF failing = {} THEN 0 ELSE CHOOSE k \in failing : \A j \in failing : k <= j

PassesAll(fd) == FirstFailing(fd) = 0

NoErrors == \A e \in ErrorFields : errorMessage[e] = false

EmptyErrorsResponse == [null |-> FALSE, hasErrors |-> TRUE, errors |-> <<>>]

\* C1: every invocation of handleSubmit that has left its await, whatever the
\* outcome of the PUT call (a response of any shape, or a rejection), has run
\* its validations.
C1_ValidatesOnEveryOutcome ==
    \A i \in 1..Len(calls) : calls[i].pc # "await" => calls[i].pc = "done"

\* C2: a validation of a form whose firstName breaks the name rule sets
\* firstNameError to a message and changes no other entry; one of a form whose
\* firstName keeps the rule and whose lastName breaks it sets lastNameError to
\* a message and changes no entry of a later field.
C2_NameErrorsHalt ==
    [][\A i \in 1..Len(calls) : Resumed(i) =>
         LET fd == calls[i].closure[1] IN
         /\ NameRuleBroken(fd.firstName) =>
              /\ errorMessage'.firstNameError \in Messages
              /\ \A e \in ErrorFields \ {"firstNameError"} :
                    errorMessage'[e] = errorMessage[e]
         /\ (~NameRuleBroken(fd.firstName) /\ NameRuleBroken(fd.lastName)) =>
              /\ errorMessage'.lastNameError \in Messages
              /\ \A e \in ErrorFields \ {"firstNameError", "lastNameError"} :
                    errorMessage'[e] = errorMessage[e]]_vars

\* A submit has validated a form with a digit in lastName and a bad email:
\* lastNameError holds the message and the email check was not reached.
C2_Witness ==
    /\ Len(calls) = 1 /\ calls[1].pc = "done"
    /\ ~NameRuleBroken(formData.firstName)
    /\ Len(formData.lastName) >= 2 /\ NameRuleBroken(formData.lastName)
    /\ ~EmailTest(formData.email)
    /\ errorMessage.lastNameError = MsgNoNumbers
    /\ errorMessage.emailError = false

\* C3: a submit event issues the PUT to /api/users/register with the current
\* FormData; a resumption whose response carries an empty errors array shows
\* the success notification and schedules the navigation to /login with a
\* delay of 2000, any other response changes neither; success and timers
\* change in no other step; the route changes only to /login; and once the
\* success is shown the navigation eventually happens.
C3_SuccessNavigates ==
    /\ [][/\ Submitted =>
               calls'[Len(calls')].request =
                   <<[method |-> "PUT", url |-> "/api/users/register", body |-> formData]>>
          /\ \A i \in 1..Len(calls) : Resumed(i) =>
               IF calls'[i].response = <<EmptyErrorsResponse>>
               THEN /\ showSuccess'
                    /\ timers' = Append(timers, [delay |-> 2000, path |-> "/login"])
               ELSE UNCHANGED <<showSuccess, timers>>
          /\ (showSuccess' # showSuccess \/ Len(timers') > Len(timers)) =>
               \E i \in 1..Len(calls) :
                   Resumed(i) /\ calls'[i].response = <<EmptyErrorsResponse>>
          /\ location' # location => (location' = "/login" /\ Len(timers') < Len(timers))
         ]_vars
    /\ (showSuccess ~> location = "/login")

\* The one submit of a valid form was answered with an empty errors array:
\* success is shown, no error is reported and the navigation has happened.
C3_Witness ==
    /\ Len(calls) = 1 /\ calls[1].pc = "done"
    /\ calls[1].response = <<EmptyErrorsResponse>>
    /\ PassesAll(formData)
    /\ NoErrors
    /\ showSuccess /\ successMessage = RegistrationSuccess
    /\ timers = <<>>
    /\ location = "/login"

\* C4: at most one PUT request is issued and not yet answered.
C4_OneInFlight == Cardinality(InFlight) <= 1

\* C5, as claimed: a validation of any form whose password differs from its
\* confirmPassword leaves passwordError = "The passwords don't match".
C5_AnyMismatchReported ==
    [][\A i \in 1..Len(calls) : Resumed(i) =>
         LET fd == calls[i].closure[1] IN
         fd.password # fd.confirmPassword =>
             errorMessage'.passwordError = "The passwords don't match"]_vars

\* C5, amended: a validation of a form that passes every check before the
\* equality check (both names, email, phone number, and the password rule for
\* password and for confirmPassword) and whose password differs from its
\* confirmPassword leaves passwordError = "The passwords don't match".
C5_MismatchReported ==
    [][\A i \in 1..Len(calls) : Resumed(i) =>
         LET fd == calls[i].closure[1] IN
         (/\ ~NameRuleBroken(fd.firstName) /\ ~NameRuleBroken(fd.lastName)
          /\ EmailTest(fd.email) /\ PhoneTest(fd.phoneNumber)
          /\ PasswordTest(fd.password) /\ PasswordTest(fd.confirmPassword)
          /\ fd.password # fd.confirmPassword) =>
             errorMessage'.passwordError = "The passwords don't match"]_vars

\* A submit has validated a form that fails the equality check only.
C5_Witness ==
    /\ Len(calls) = 1 /\ calls[1].pc = "done"
    /\ FirstFailing(formData) = Len(CheckOrder)
    /\ errorMessage.passwordError = MsgMismatch

\* C6: a step that changes FormData changes one field, to a value of its
\* input, and changes nothing else (no ErrorState entry, not the success
\* state, no frame, timer or route); ErrorState changes only in the step in
\* which a frame of handleSubmit runs its validation.
C6_FieldChangeFrame ==
    [][/\ formData' # formData =>
            /\ \E name \in Fields :
                   /\ formData'[name] \in InputValues[name]
                   /\ \A f \in Fields \ {name} : formData'[f] = formData[f]
            /\ UNCHANGED <<errorMessage, successMessage, showSuccess, calls, timers, location>>
       /\ errorMessage' # errorMessage => \E i \in 1..Len(calls) : Resumed(i)
      ]_vars

\* firstName was changed while a request was in flight and after an earlier
\* submit had reported it: the report and the frame's closure are as before.
C6_Witness ==
    /\ formData.firstName \in InputValues.firstName
    /\ errorMessage.firstNameError = MsgMin2
    /\ \E i \in InFlight : calls[i].closure[1].firstName = <<>>

\* C7: the step of a submit event issues the PUT request with the current
\* FormData and suspends, with ErrorState untouched; ErrorState changes only
\* in a later step of a frame whose request had been issued.
C7_RequestBeforeValidation ==
    [][/\ Submitted =>
            LET c == calls'[Len(calls')] IN
            /\ c.pc = "await"
            /\ c.request = <<[method |-> "PUT", url |-> "/api/users/register",
                              body |-> formData]>>
            /\ errorMessage' = errorMessage
       /\ errorMessage' # errorMessage =>
            \E i \in 1..Len(calls) : Resumed(i) /\ calls[i].request # <<>>
      ]_vars

\* The one submit sent an invalid form and was answered with an empty errors
\* array: success is shown and the navigation is scheduled while an ErrorState
\* entry holds the message of that submit.
C7_Witness ==
    /\ Len(calls) = 1 /\ calls[1].pc = "done"
    /\ showSuccess
    /\ timers # <<>>
    /\ location = RegisterPath
    /\ \E e \in ErrorFields : errorMessage[e] \in Messages

\* C8: a validation that fails sets the entry of its first failing check to a
\* message, sets to false the entries of the checks before it, and leaves the
\* entries of the checks after it unchanged.
C8_OrderedShortCircuit ==
    [][\A i \in 1..Len(calls) : Resumed(i) =>
         LET k == FirstFailing(calls[i].closure[1])
             before == {EntryOf(CheckOrder[j]) : j \in 1..(k - 1)}
         IN  k # 0 =>
             /\ errorMessage'[EntryOf(CheckOrder[k])] \in Messages
             /\ \A e \in before \ {EntryOf(CheckOrder[k])} : errorMessage'[e] = false
             /\ \A e \in ErrorFields \ (before \cup {EntryOf(CheckOrder[k])}) :
                    errorMessage'[e] = errorMessage[e]]_vars

\* C9: after a validation exactly the entry of the first failing check holds a
\* message and every other entry is false; all entries are false when the form
\* passes every check.
C9_OnlyFirstInvalidReported ==
    [][\A i \in 1..Len(calls) : Resumed(i) =>
         LET k == FirstFailing(calls[i].closure[1]) IN
         \A e \in ErrorFields :
             IF k # 0 /\ e = EntryOf(CheckOrder[k])
             THEN errorMessage'[e] \in Messages
             ELSE errorMessage'[e] = false]_vars

\* C10: a frame validates the FormData it captured at its submit event, the
\* body of its request: the entry of that form's first failing check gets
\* the message and no other entry gets a new message, whatever FormData holds
\* by then; and a change of FormData changes no frame.
C10_ValidatesSnapshot ==
    [][/\ \A i \in 1..Len(calls) : Resumed(i) =>
            LET fd == calls[i].closure[1]
                k == FirstFailing(fd)
            IN  /\ calls[i].request[1].body = fd
                /\ k # 0 => errorMessage'[EntryOf(CheckOrder[k])] \in Messages
                /\ \A e \in ErrorFields :
                       (errorMessage'[e] \in Messages /\ errorMessage'[e] # errorMessage[e])
                           => (k # 0 /\ e = EntryOf(CheckOrder[k]))
       /\ formData' # formData => \A i \in 1..Len(calls) : calls'[i] = calls[i]
      ]_vars

\* The one submit was made with firstName empty and has been validated: its
\* message is on firstName, while the form now fails first on lastName.
C10_Witness ==
    /\ Len(calls) = 1 /\ calls[1].pc = "done"
    /\ errorMessage.firstNameError = MsgMin2
    /\ errorMessage.lastNameError = false
    /\ FirstFailing(formData) = 2

=============================================================================
